---- MODULE Spec2Model ----
(***************************************************************************)
(* Order / cart / payment consistency slice of the JFD storefront backend. *)
(*                                                                         *)
(* The relational store is the only shared state.  Every request handler   *)
(* is an action; a handler that awaits the store between a read and a      *)
(* later write that depends on it (createOrder) is split at those awaits,  *)
(* so two requests interleave exactly where the code lets them.  A         *)
(* prisma.$transaction block is one atomic step that either applies all    *)
(* of its writes or none.                                                  *)
(***************************************************************************)
EXTENDS Integers, Sequences, FiniteSets, TLC

\* ------------------------------------------------------------------ bounds

ProductIds == {"p1", "p2"}
\* an id that names no Product row
MissingId == "p0"
Customers == {"u1", "u2"}
\* concurrent createOrder requests in flight
Requests == {"r1", "r2"}

MaxStock == 2
MaxQty == 2
MaxOrders == 2
MaxCancels == 2
MaxTime == 2
MaxProviderOrders == 2
MaxCartQty == 2
MaxGranted == 3

\* ------------------------------------------------------------------ state

VARIABLES
    stock,        \* Product.stockQuantity, per product id
    isPublished,  \* Product.isPublished
    price,        \* Product.price
    orders,       \* the Order table, a sequence; an order's id is its index
    reqs,         \* the createOrder requests in flight
    now,          \* the server clock (new Date())
    ppNext,       \* provider order ids handed out by the payment provider so far
    last,         \* the response most recently sent
    carts,        \* the Cart table, per cart id
    cartItems,    \* the CartItem table, a set of rows
    cartReqs,     \* the session-keyed addItemToCart requests in flight
    granted,      \* history: per item, the quantity the answered adds asked for
    preStock,     \* history: per order, the stock just before its placement
    cancels,      \* history: per order, how many cancelOrder runs succeeded
    providerCalls \* history: the provider calls of the latest payment handler

vars == <<stock, isPublished, price, orders, reqs, now, ppNext, last, carts, cartItems,
          cartReqs, granted, preStock, cancels, providerCalls>>

productVars == <<stock, isPublished, price>>
payVars == <<now, ppNext>>
cartVars == <<carts, cartItems, cartReqs, granted>>
cartRaceVars == <<cartReqs, granted>>
orderVars == <<orders, reqs>>
histVars == <<preStock, cancels, providerCalls>>
orderHistVars == <<preStock, cancels>>

\* ------------------------------------------------------------------ values

OrderStatus == {"PENDING", "PROCESSING", "SHIPPED", "DELIVERED", "CANCELLED"}

\* the statuses the administrator moves an order to as it ships
ShipmentStatuses == {"SHIPPED", "DELIVERED"}

\* Order.paymentResult is a nullable Json column: NoResult is the null
NoResult == [id |-> "", status |-> "", updateTime |-> 0, emailAddress |-> ""]

\* req.body.orderItems entries.  The quantity of an item naming no product
\* is never looked at.
OrderItemInputs ==
    {[productId |-> p, quantity |-> q] : p \in ProductIds, q \in 1..MaxQty}
        \cup {[productId |-> MissingId, quantity |-> 1]}

OrderItemLists ==
    {<<>>} \cup {<<a>> : a \in OrderItemInputs}
           \cup {<<a, b>> : a \in OrderItemInputs, b \in OrderItemInputs}

\* req.body.totalPrice, the client-declared total
TotalPrices == {50}

\* Cart.id is a generated uuid: no cart id is a user id or a session id
CartIds == {"c1", "c2"}
\* the anonymous sessions of the session-keyed cart handlers
SessionIds == {"s1"}
Prices == {10, 20}
\* req.body.price of the session-keyed addItemToCart; 0 is no price given
ClientPrices == {0, 5}

\* the concurrent session-keyed addItemToCart requests
CartRequests == {"a1", "a2"}
IdleCartReq == [pc |-> "idle", cartId |-> "", productId |-> "", quantity |-> 0,
                price |-> 0, found |-> FALSE, foundQuantity |-> 0, total |-> 0]

NoCart == [exists |-> FALSE, sessionId |-> "", total |-> 0]

IdleReq == [pc |-> "idle", userId |-> "", items |-> <<>>, total |-> 0, read |-> {}]

NoSnapshot == [valid |-> FALSE, at |-> [p \in ProductIds |-> 0]]

\* what a handler answers: the handler, the HTTP status, and a note: the
\* message or redirect target of the answer, or the branch that gave an answer
\* that carries neither
Response(op, code, note) == [op |-> op, code |-> code, note |-> note]

\* ------------------------------------------------------------------ helpers

\* the quantity of product p over an item list
RECURSIVE Demand(_, _)
Demand(its, p) ==
    IF its = <<>> THEN 0
    ELSE (IF Head(its).productId = p THEN Head(its).quantity ELSE 0)
             + Demand(Tail(its), p)

\* createOrder's validation closure for one item, against the store as it is
\* when that item's findUnique is answered
CheckItem(item) ==
    IF item.productId \notin ProductIds THEN "NotFound"
    ELSE IF ~isPublished[item.productId] THEN "Unavailable"
    ELSE IF stock[item.productId] < item.quantity THEN "InsufficientStock"
    ELSE "ok"

\* mutant of DecrementStock: every item takes one unit, whatever its quantity
RECURSIVE DecrementStockByOne(_, _)
DecrementStockByOne(st, its) ==
    IF its = <<>> THEN st
    ELSE DecrementStockByOne([st EXCEPT ![Head(its).productId] = @ - 1], Tail(its))

\* createOrder: for (item of orderItemsWithProducts) product.update(decrement)
RECURSIVE DecrementStock(_, _)
DecrementStock(st, its) ==
    IF its = <<>> THEN st
    ELSE DecrementStock([st EXCEPT ![Head(its).productId] = @ - Head(its).quantity],
                        Tail(its))

\* mutant of IncrementStock: a product is restored once, by its first item only
RECURSIVE IncrementStockFirstOnly(_, _)
IncrementStockFirstOnly(st, its) ==
    IF its = <<>> THEN st
    ELSE LET rest == SelectSeq(Tail(its), LAMBDA x : x.productId # Head(its).productId)
         IN IncrementStockFirstOnly(
                [st EXCEPT ![Head(its).productId] = @ + Head(its).quantity], rest)

\* cancelOrder: for (item of order.items) product.update(increment)
RECURSIVE IncrementStock(_, _)
IncrementStock(st, its) ==
    IF its = <<>> THEN st
    ELSE IncrementStock([st EXCEPT ![Head(its).productId] = @ + Head(its).quantity],
                        Tail(its))

\* createOrder: orderData, with the schema's column defaults
NewOrder(u, its, total) ==
    [userId |-> u, status |-> "PENDING", total |-> total, isPaid |-> FALSE,
     isShipped |-> FALSE, isDelivered |-> FALSE, paidAt |-> 0,
     paymentMethod |-> "card", paymentProviderOrderId |-> 0,
     paymentResult |-> NoResult, items |-> its]

InFlight == Cardinality({r \in Requests : reqs[r].pc # "idle"})

\* every snapshot but the ones kept is dropped: the stock has been changed by
\* something other than the order's own placement and first cancellation
DropSnapshots(keep) ==
    [i \in DOMAIN preStock |-> IF i \in keep THEN preStock[i] ELSE NoSnapshot]

\* ------------------------------------------------------------------ init

Init ==
    /\ stock \in [ProductIds -> 1..MaxStock]
    /\ isPublished = [p \in ProductIds |-> TRUE]
    /\ price = [p \in ProductIds |-> 10]
    /\ orders = <<>>
    /\ reqs = [r \in Requests |-> IdleReq]
    /\ now = 1
    /\ ppNext = 0
    /\ last = Response("none", 0, "")
    /\ carts = [c \in CartIds |-> NoCart]
    /\ cartItems = {}
    /\ cartReqs = [r \in CartRequests |-> IdleCartReq]
    /\ granted = [k \in [cartId : CartIds, productId : ProductIds] |-> 0]
    /\ preStock = <<>>
    /\ cancels = <<>>
    /\ providerCalls = {}

\* ------------------------------------------------------------------ createOrder

\* the request arrives: body checks, then the per-item reads are issued
BeginCreateOrder(r, u, its, total) ==
    /\ reqs[r].pc = "idle"
    /\ Len(orders) + InFlight < MaxOrders
    /\ IF its = <<>>
       THEN /\ last' = Response("createOrder", 400, "No order items")
            /\ UNCHANGED reqs
       ELSE /\ reqs' = [reqs EXCEPT ![r] =
                    [pc |-> "validating", userId |-> u, items |-> its,
                     total |-> total, read |-> {}]]
            /\ UNCHANGED last
    /\ UNCHANGED <<cartVars, productVars, orders, payVars, histVars>>

\* one item's findUnique is answered and its checks run; a failed check
\* rejects the Promise.all and the catch block answers 400
ValidateItem(r, i) ==
    /\ reqs[r].pc = "validating"
    /\ i \in (1..Len(reqs[r].items)) \ reqs[r].read
    /\ IF CheckItem(reqs[r].items[i]) # "ok"
       THEN /\ reqs' = [reqs EXCEPT ![r] = IdleReq]
            /\ last' = Response("createOrder", 400, CheckItem(reqs[r].items[i]))
       ELSE /\ reqs' = [reqs EXCEPT ![r].read = @ \cup {i},
                                    ![r].pc = IF reqs[r].read \cup {i} = 1..Len(reqs[r].items)
                                              THEN "validated" ELSE "validating"]
            /\ UNCHANGED last
    /\ UNCHANGED <<cartVars, productVars, orders, payVars, histVars>>

\* mutant of OrderTransaction: the writes are not in a transaction, and the
\* store failing after order.create leaves the order behind
OrderNoTransaction(r, storeOk) ==
    IF storeOk
    THEN [orders |-> Append(orders, NewOrder(reqs[r].userId, reqs[r].items, reqs[r].total)),
          stock |-> DecrementStock(stock, reqs[r].items), ok |-> TRUE]
    ELSE [orders |-> Append(orders, NewOrder(reqs[r].userId, reqs[r].items, reqs[r].total)),
          stock |-> stock, ok |-> FALSE]

\* prisma.$transaction: order.create with its items, then one decrement per
\* item, all applied or (storeOk = FALSE: the store fails inside) none
OrderTransaction(r, storeOk) ==
    IF storeOk
    THEN [orders |-> Append(orders, NewOrder(reqs[r].userId, reqs[r].items, reqs[r].total)),
          stock |-> DecrementStock(stock, reqs[r].items), ok |-> TRUE]
    ELSE [orders |-> orders, stock |-> stock, ok |-> FALSE]

\* the transaction runs and the handler answers 201, or 400 from its catch
CommitOrder(r, storeOk) ==
    LET tx == OrderTransaction(r, storeOk) IN
    /\ reqs[r].pc = "validated"
    /\ reqs' = [reqs EXCEPT ![r] = IdleReq]
    /\ orders' = tx.orders
    /\ stock' = tx.stock
    /\ IF Len(tx.orders) > Len(orders)
       THEN /\ preStock' = Append(DropSnapshots({}), [valid |-> TRUE, at |-> stock])
            /\ cancels' = Append(cancels, 0)
       ELSE UNCHANGED orderHistVars
    /\ last' = IF tx.ok THEN Response("createOrder", 201, "")
                        ELSE Response("createOrder", 400, "StoreFailure")
    /\ UNCHANGED <<cartVars, isPublished, price, payVars, providerCalls>>

\* ------------------------------------------------------------------ cancelOrder

\* mutant of CancelRejection: the shipped / delivered check is missing
CancelRejectionNoShipCheck(u, isAdmin, id) ==
    IF id \notin DOMAIN orders THEN 404
    ELSE IF ~isAdmin /\ orders[id].userId # u THEN 403
    ELSE 0

\* cancelOrder's early returns: the status of the rejection, 0 for none
CancelRejection(u, isAdmin, id) ==
    IF id \notin DOMAIN orders THEN 404
    ELSE IF ~isAdmin /\ orders[id].userId # u THEN 403
    ELSE IF orders[id].isShipped \/ orders[id].isDelivered THEN 400
    ELSE 0

CancelOrder(u, isAdmin, id) ==
    /\ IF CancelRejection(u, isAdmin, id) # 0
       THEN /\ last' = Response("cancelOrder", CancelRejection(u, isAdmin, id), "")
            /\ UNCHANGED <<stock, orders, orderHistVars>>
       ELSE /\ cancels[id] < MaxCancels
            /\ stock' = IncrementStock(stock, orders[id].items)
            /\ orders' = [orders EXCEPT ![id].status = "CANCELLED"]
            /\ preStock' = DropSnapshots(IF cancels[id] = 0 THEN {id} ELSE {})
            /\ cancels' = [cancels EXCEPT ![id] = @ + 1]
            /\ last' = Response("cancelOrder", 200, "")
    /\ UNCHANGED <<cartVars, isPublished, price, reqs, payVars, providerCalls>>

\* ------------------------------------------------------------------ admin

\* mutant of UpdateOrderStatus: the update also clears isPaid
UpdateOrderStatusClearingPaid(id, status) ==
    /\ IF id \notin DOMAIN orders
       THEN /\ last' = Response("updateOrderStatus", 404, "")
            /\ UNCHANGED orders
       ELSE /\ orders' = [orders EXCEPT ![id].status = status, ![id].isPaid = FALSE]
            /\ last' = Response("updateOrderStatus", 200, "")
    /\ UNCHANGED <<cartVars, productVars, reqs, payVars, histVars>>

\* updateOrderStatus (administrator): any status is written
UpdateOrderStatus(id, status) ==
    /\ IF id \notin DOMAIN orders
       THEN /\ last' = Response("updateOrderStatus", 404, "")
            /\ UNCHANGED orders
       ELSE /\ orders' = [orders EXCEPT
                    ![id].status = status,
                    ![id].isShipped = IF status = "SHIPPED" THEN TRUE ELSE @,
                    ![id].isDelivered = IF status = "DELIVERED" THEN TRUE ELSE @]
            /\ last' = Response("updateOrderStatus", 200, "")
    /\ UNCHANGED <<cartVars, productVars, reqs, payVars, histVars>>

ToggleProductPublication(p, b) ==
    /\ isPublished' = [isPublished EXCEPT ![p] = b]
    /\ last' = Response("toggleProductPublication", 200, "")
    /\ UNCHANGED <<cartVars, stock, price, orders, reqs, payVars, histVars>>

\* ------------------------------------------------------------------ payment

\* mutant of OrdersByProviderId: any order that has a provider order id matches
OrdersWithProviderId(token) ==
    {id \in DOMAIN orders : orders[id].paymentProviderOrderId # 0}

\* prisma.order.findFirst({ where: { paymentProviderOrderId } }): the ids of
\* the orders that match
OrdersByProviderId(token) ==
    {id \in DOMAIN orders : orders[id].paymentProviderOrderId = token}

\* the row findFirst returns: no orderBy is given; the provider hands every
\* id out once, so at most one order matches a token
FoundOrder(token) == CHOOSE id \in OrdersByProviderId(token) : TRUE

\* handlePaypalConfirmation: paymentResult built from the capture response
CaptureResult == [id |-> "capture", status |-> "COMPLETED", updateTime |-> now,
                  emailAddress |-> "payer"]

\* handlePaypalWebhook: paymentResult built from the event (no emailAddress)
WebhookResult(resourceId) ==
    [id |-> resourceId, status |-> "COMPLETED", updateTime |-> now, emailAddress |-> ""]

\* mutant of MarkPaid: the update also writes the order's total
MarkPaidClearingTotal(order, result) ==
    [order EXCEPT !.isPaid = TRUE, !.paidAt = now, !.status = "PROCESSING",
                  !.paymentResult = result, !.total = 0]

\* the update both entry points issue to mark an order paid
MarkPaid(order, result) ==
    [order EXCEPT !.isPaid = TRUE, !.paidAt = now, !.status = "PROCESSING",
                  !.paymentResult = result]

\* mutant of StoreProviderOrder: an id already on the order is kept
StoreProviderOrderKeepFirst(order, providerId) ==
    [order EXCEPT !.paymentMethod = "PayPal",
                  !.paymentProviderOrderId = IF @ = 0 THEN providerId ELSE @]

\* initiatePaypalPayment: "Update order with PayPal ID"
StoreProviderOrder(order, providerId) ==
    [order EXCEPT !.paymentMethod = "PayPal", !.paymentProviderOrderId = providerId]

\* mutant of InitiateRejection: the isPaid test is missing
InitiateRejectionNoPaidCheck(u, id) ==
    IF id \notin DOMAIN orders THEN 404
    ELSE IF orders[id].userId # u THEN 403
    ELSE 0

\* initiatePaypalPayment: the checks before the provider is called; 0 is no
\* rejection
InitiateRejection(u, id) ==
    IF id \notin DOMAIN orders THEN 404
    ELSE IF orders[id].userId # u THEN 403
    ELSE IF orders[id].isPaid THEN 400
    ELSE 0

\* initiatePaypalPayment.  provider: "ok" (the provider order is created and
\* carries an approve link), "noApprove" (created, no approve link), "fail"
\* (createPaypalOrder throws)
InitiatePaypalPayment(u, id, provider) ==
    /\ IF InitiateRejection(u, id) # 0
       THEN /\ last' = Response("initiatePaypalPayment", InitiateRejection(u, id),
                                IF InitiateRejection(u, id) = 400
                                THEN "Order is already paid" ELSE "")
            /\ UNCHANGED <<orders, ppNext>>
            /\ providerCalls' = {}
       ELSE IF provider = "fail"
       THEN /\ last' = Response("initiatePaypalPayment", 500, "")
            /\ UNCHANGED <<orders, ppNext>>
            /\ providerCalls' = {"create"}
       ELSE /\ ppNext < MaxProviderOrders
            /\ providerCalls' = {"create"}
            /\ ppNext' = ppNext + 1
            /\ orders' = [orders EXCEPT ![id] = StoreProviderOrder(@, ppNext + 1)]
            /\ last' = IF provider = "ok"
                       THEN Response("initiatePaypalPayment", 200, "approvalUrl")
                       ELSE Response("initiatePaypalPayment", 500, "")
    /\ UNCHANGED <<cartVars, productVars, reqs, now, orderHistVars>>

\* handlePaypalConfirmation.  token 0 is a request without a token; captured
\* is whether capturePaypalPayment returns or throws
HandlePaypalConfirmation(token, captured) ==
    /\ IF token = 0
       THEN /\ last' = Response("handlePaypalConfirmation", 400, "")
            /\ UNCHANGED orders
            /\ providerCalls' = {}
       ELSE IF OrdersByProviderId(token) = {}
       THEN /\ last' = Response("handlePaypalConfirmation", 404, "")
            /\ UNCHANGED orders
            /\ providerCalls' = {}
       ELSE IF ~captured
       THEN /\ last' = Response("handlePaypalConfirmation", 500, "")
            /\ UNCHANGED orders
            /\ providerCalls' = {"capture"}
       ELSE /\ orders' = [orders EXCEPT ![FoundOrder(token)] = MarkPaid(@, CaptureResult)]
            /\ last' = Response("handlePaypalConfirmation", 302, "confirmation")
            /\ providerCalls' = {"capture"}
    /\ UNCHANGED <<cartVars, productVars, reqs, payVars, orderHistVars>>

\* mutant of HandlePaypalCancellation: the order's provider order id is cleared
HandlePaypalCancellationClearingId(token) ==
    /\ last' = IF token = 0 THEN Response("handlePaypalCancellation", 400, "")
               ELSE IF OrdersByProviderId(token) = {}
               THEN Response("handlePaypalCancellation", 404, "")
               ELSE Response("handlePaypalCancellation", 302, "cancelled")
    /\ orders' = [id \in DOMAIN orders |->
                     IF token # 0 /\ orders[id].paymentProviderOrderId = token
                     THEN [orders[id] EXCEPT !.paymentProviderOrderId = 0]
                     ELSE orders[id]]
    /\ providerCalls' = {}
    /\ UNCHANGED <<cartVars, productVars, reqs, payVars, orderHistVars>>

\* handlePaypalCancellation
HandlePaypalCancellation(token) ==
    /\ last' = IF token = 0 THEN Response("handlePaypalCancellation", 400, "")
               ELSE IF OrdersByProviderId(token) = {}
               THEN Response("handlePaypalCancellation", 404, "")
               ELSE Response("handlePaypalCancellation", 302, "cancelled")
    /\ providerCalls' = {}
    /\ UNCHANGED <<cartVars, productVars, orders, reqs, payVars, orderHistVars>>

\* mutant of WebhookUpdate: the isPaid test is missing
WebhookUpdateAlways(order, resourceId) == MarkPaid(order, WebhookResult(resourceId))

\* handlePaypalWebhook: "If not already marked as paid, update it"
WebhookUpdate(order, resourceId) ==
    IF ~order.isPaid THEN MarkPaid(order, WebhookResult(resourceId)) ELSE order

\* mutant of WebhookActsOn: every event type is acted on
WebhookActsOnAny(eventType) == TRUE

\* handlePaypalWebhook: the one event type that is acted on
WebhookActsOn(eventType) == eventType = "PAYMENT.CAPTURE.COMPLETED"

\* handlePaypalWebhook.  orderId 0 is an event without
\* resource.supplementary_data.related_ids.order_id
HandlePaypalWebhook(eventType, orderId, resourceId) ==
    /\ IF ~WebhookActsOn(eventType)
       THEN /\ last' = Response("handlePaypalWebhook", 200, "ignored")
            /\ UNCHANGED orders
       ELSE IF orderId = 0
       THEN /\ last' = Response("handlePaypalWebhook", 400, "")
            /\ UNCHANGED orders
       ELSE IF OrdersByProviderId(orderId) = {}
       THEN /\ last' = Response("handlePaypalWebhook", 404, "")
            /\ UNCHANGED orders
       ELSE /\ orders' = [orders EXCEPT ![FoundOrder(orderId)] = WebhookUpdate(@, resourceId)]
            /\ last' = Response("handlePaypalWebhook", 200,
                                IF orders[FoundOrder(orderId)].isPaid
                                THEN "already paid" ELSE "paid")
    /\ providerCalls' = {}
    /\ UNCHANGED <<cartVars, productVars, reqs, payVars, orderHistVars>>

\* updateOrderToPaid, the generic mark-as-paid; withResult is whether the body
\* carries a paymentResult
UpdateOrderToPaid(id, withResult) ==
    /\ IF id \notin DOMAIN orders
       THEN /\ last' = Response("updateOrderToPaid", 404, "")
            /\ UNCHANGED orders
       ELSE /\ orders' = [orders EXCEPT
                    ![id].isPaid = TRUE,
                    ![id].status = "PROCESSING",
                    ![id].paymentResult =
                        IF withResult
                        THEN [id |-> "client", status |-> "COMPLETED",
                              updateTime |-> now, emailAddress |-> "payer"]
                        ELSE @]
            /\ last' = Response("updateOrderToPaid", 200, "")
    /\ providerCalls' = {}
    /\ UNCHANGED <<cartVars, productVars, reqs, payVars, orderHistVars>>

\* time passes on the server clock
Tick ==
    /\ now < MaxTime
    /\ now' = now + 1
    /\ UNCHANGED <<cartVars, productVars, orders, reqs, ppNext, last, histVars>>

\* ------------------------------------------------------------------ cart

\* a cart item is named by its id; the schema's @@unique([cartId, productId])
\* makes the pair stand for it
ItemKeys == [cartId : CartIds, productId : ProductIds]

ItemsOf(its, c) == {it \in its : it.cartId = c}

FindItem(key) ==
    {it \in cartItems : it.cartId = key.cartId /\ it.productId = key.productId}

\* prisma.cart.findUnique({ where: { id } })
CartsById(key) == {c \in CartIds : carts[c].exists /\ c = key}

\* prisma.cart.findUnique({ where: { sessionId } })
CartsBySession(key) == {c \in CartIds : carts[c].exists /\ carts[c].sessionId = key}

FreeCartIds == {c \in CartIds : ~carts[c].exists}

NewCart(sessionId) == [exists |-> TRUE, sessionId |-> sessionId, total |-> 0]

\* updateCartTotal: the sum of quantity times the item's stored price
RECURSIVE StoredPriceTotal(_)
StoredPriceTotal(its) ==
    IF its = {} THEN 0
    ELSE LET it == CHOOSE x \in its : TRUE
         IN it.price * it.quantity + StoredPriceTotal(its \ {it})

\* the user-keyed handlers' reduce: quantity times item.product.price, the
\* product's price as it is now
RECURSIVE LivePriceTotal(_)
LivePriceTotal(its) ==
    IF its = {} THEN 0
    ELSE LET it == CHOOSE x \in its : TRUE
         IN it.quantity * price[it.productId] + LivePriceTotal(its \ {it})

CartAnswer(op, code, note) ==
    /\ last' = Response(op, code, note)
    /\ UNCHANGED cartVars

\* ---- the routed, user-keyed handlers

\* getUserCart: the cart is looked up by id = req.user.id
GetUserCart(u) ==
    /\ IF CartsById(u) = {}
       THEN CartAnswer("getUserCart", 200, "empty")
       ELSE LET c == CHOOSE x \in CartsById(u) : TRUE IN
            /\ carts' = [carts EXCEPT ![c].total = LivePriceTotal(ItemsOf(cartItems, c))]
            /\ UNCHANGED cartItems
            /\ last' = Response("getUserCart", 200, "")
    /\ UNCHANGED <<productVars, orderVars, payVars, histVars, cartRaceVars>>

\* addItemToCart: the cart is looked up by id = req.user.id and created with
\* sessionId = req.user.id; a second cart of one sessionId breaks the unique
\* constraint and the error handler answers 409.  The cart is created outside
\* the transaction.
AddItemToCart(u, p, q) ==
    /\ IF p \notin ProductIds
       THEN CartAnswer("addItemToCart", 404, "Product not found")
       ELSE IF ~isPublished[p]
       THEN CartAnswer("addItemToCart", 400, "Unavailable")
       ELSE IF stock[p] < q
       THEN CartAnswer("addItemToCart", 400, "InsufficientStock")
       ELSE IF CartsById(u) = {} /\ CartsBySession(u) # {}
       THEN CartAnswer("addItemToCart", 409, "A record with that value already exists")
       ELSE /\ CartsById(u) = {} => FreeCartIds # {}
            /\ LET c == IF CartsById(u) # {} THEN CHOOSE x \in CartsById(u) : TRUE
                        ELSE CHOOSE x \in FreeCartIds : TRUE
                   got == [carts EXCEPT ![c] = IF @.exists THEN @ ELSE NewCart(u)]
                   existing == ItemsOf(cartItems, c) \cap FindItem([cartId |-> c, productId |-> p])
               IN IF existing # {} /\ (CHOOSE e \in existing : TRUE).quantity + q > stock[p]
                  THEN /\ carts' = got
                       /\ UNCHANGED cartItems
                       /\ last' = Response("addItemToCart", 400, "InsufficientStock")
                  ELSE LET items == IF existing # {}
                                    THEN (cartItems \ existing)
                                             \cup {[e EXCEPT !.quantity = @ + q] : e \in existing}
                                    ELSE cartItems \cup {[cartId |-> c, productId |-> p,
                                                          quantity |-> q, price |-> price[p]]}
                       IN /\ cartItems' = items
                          /\ carts' = [got EXCEPT ![c].total = LivePriceTotal(ItemsOf(items, c))]
                          /\ last' = Response("addItemToCart", 200, "")
    /\ UNCHANGED <<productVars, orderVars, payVars, histVars, cartRaceVars>>

\* updateCartItem
UpdateCartItem(u, key, q) ==
    /\ IF q < 1
       THEN CartAnswer("updateCartItem", 400, "Quantity must be at least 1")
       ELSE IF FindItem(key) = {}
       THEN CartAnswer("updateCartItem", 404, "")
       ELSE IF carts[key.cartId].sessionId # u
       THEN CartAnswer("updateCartItem", 403, "")
       ELSE IF q > stock[key.productId]
       THEN CartAnswer("updateCartItem", 400, "InsufficientStock")
       ELSE LET items == (cartItems \ FindItem(key))
                             \cup {[e EXCEPT !.quantity = q] : e \in FindItem(key)}
            IN /\ cartItems' = items
               /\ carts' = [carts EXCEPT ![key.cartId].total =
                                LivePriceTotal(ItemsOf(items, key.cartId))]
               /\ last' = Response("updateCartItem", 200, "")
    /\ UNCHANGED <<productVars, orderVars, payVars, histVars, cartRaceVars>>

\* removeCartItem
RemoveCartItem(u, key) ==
    /\ IF FindItem(key) = {}
       THEN CartAnswer("removeCartItem", 404, "")
       ELSE IF carts[key.cartId].sessionId # u
       THEN CartAnswer("removeCartItem", 403, "")
       ELSE LET items == cartItems \ FindItem(key)
            IN /\ cartItems' = items
               /\ carts' = [carts EXCEPT ![key.cartId].total =
                                LivePriceTotal(ItemsOf(items, key.cartId))]
               /\ last' = Response("removeCartItem", 200, "")
    /\ UNCHANGED <<productVars, orderVars, payVars, histVars, cartRaceVars>>

\* mutant of ClearCart: deleteMany has no where clause
ClearCartOfEveryone(u) ==
    /\ IF CartsBySession(u) = {}
       THEN CartAnswer("clearCart", 200, "empty")
       ELSE LET c == CHOOSE x \in CartsBySession(u) : TRUE IN
            /\ cartItems' = {}
            /\ carts' = [carts EXCEPT ![c].total = 0]
            /\ last' = Response("clearCart", 200, "")
    /\ UNCHANGED <<productVars, orderVars, payVars, histVars, cartRaceVars>>

\* clearCart: the cart is looked up by sessionId = req.user.id
ClearCart(u) ==
    /\ IF CartsBySession(u) = {}
       THEN CartAnswer("clearCart", 200, "empty")
       ELSE LET c == CHOOSE x \in CartsBySession(u) : TRUE IN
            /\ cartItems' = cartItems \ ItemsOf(cartItems, c)
            /\ carts' = [carts EXCEPT ![c].total = 0]
            /\ last' = Response("clearCart", 200, "")
    /\ UNCHANGED <<productVars, orderVars, payVars, histVars, cartRaceVars>>

\* ---- the session-keyed handlers

\* getCartById: the session's cart, created on first access
GetCartById(sessionId) ==
    /\ IF CartsBySession(sessionId) # {}
       THEN CartAnswer("getCartById", 200, "")
       ELSE /\ FreeCartIds # {}
            /\ carts' = [carts EXCEPT ![CHOOSE x \in FreeCartIds : TRUE] = NewCart(sessionId)]
            /\ UNCHANGED cartItems
            /\ last' = Response("getCartById", 200, "created")
    /\ UNCHANGED <<productVars, orderVars, payVars, histVars, cartRaceVars>>

\* addItemToCart of the session-keyed handlers; clientPrice 0 is no price in
\* the body
AddItemToSessionCart(c, p, q, clientPrice) ==
    /\ IF q <= 0
       THEN CartAnswer("addItemToSessionCart", 400, "Quantity must be greater than 0")
       ELSE IF ~carts[c].exists
       THEN CartAnswer("addItemToSessionCart", 404, "Cart not found")
       ELSE IF p \notin ProductIds
       THEN CartAnswer("addItemToSessionCart", 404, "Product not found")
       ELSE LET key == [cartId |-> c, productId |-> p]
                items == IF FindItem(key) # {}
                         THEN (cartItems \ FindItem(key))
                                  \cup {[e EXCEPT !.quantity = @ + q] : e \in FindItem(key)}
                         ELSE cartItems \cup
                                  {[cartId |-> c, productId |-> p, quantity |-> q,
                                    price |-> IF clientPrice # 0 THEN clientPrice
                                              ELSE price[p]]}
            IN /\ \A e \in FindItem(key) : e.quantity + q <= MaxCartQty
               /\ cartItems' = items
               /\ carts' = [carts EXCEPT ![c].total = StoredPriceTotal(ItemsOf(items, c))]
               /\ last' = Response("addItemToSessionCart",
                                   IF FindItem(key) # {} THEN 200 ELSE 201, "")
    /\ UNCHANGED <<productVars, orderVars, payVars, histVars, cartRaceVars>>

\* ---- the session-keyed addItemToCart, statement by statement: it runs in
\* no transaction, so other requests' statements come in between

\* the quantity asked for by the requests in flight for the item named by key
RECURSIVE InFlightQuantity(_, _)
InFlightQuantity(rs, key) ==
    IF rs = {} THEN 0
    ELSE LET r == CHOOSE x \in rs : TRUE
         IN (IF cartReqs[r].pc # "idle" /\ cartReqs[r].cartId = key.cartId
                  /\ cartReqs[r].productId = key.productId
             THEN cartReqs[r].quantity ELSE 0)
            + InFlightQuantity(rs \ {r}, key)

\* addItemToCart up to cartItem.findFirst: the request's checks and its read
\* of the existing item
BeginSessionAdd(r, c, p, q, clientPrice) ==
    /\ cartReqs[r].pc = "idle"
    /\ IF q <= 0
       THEN /\ last' = Response("addItemToSessionCart", 400, "Quantity must be greater than 0")
            /\ UNCHANGED cartReqs
       ELSE IF ~carts[c].exists
       THEN /\ last' = Response("addItemToSessionCart", 404, "Cart not found")
            /\ UNCHANGED cartReqs
       ELSE IF p \notin ProductIds
       THEN /\ last' = Response("addItemToSessionCart", 404, "Product not found")
            /\ UNCHANGED cartReqs
       ELSE LET key == [cartId |-> c, productId |-> p] IN
            /\ granted[key] + InFlightQuantity(CartRequests, key) + q <= MaxGranted
            /\ cartReqs' = [cartReqs EXCEPT ![r] =
                   [pc |-> "found", cartId |-> c, productId |-> p, quantity |-> q,
                    price |-> IF clientPrice # 0 THEN clientPrice ELSE price[p],
                    found |-> FindItem(key) # {},
                    foundQuantity |-> IF FindItem(key) # {}
                                      THEN (CHOOSE e \in FindItem(key) : TRUE).quantity
                                      ELSE 0,
                    total |-> 0]]
            /\ UNCHANGED last
    /\ UNCHANGED <<carts, cartItems, granted, productVars, orderVars, payVars, histVars>>

\* the item table after the request's cartItem.update (quantity: the
\* quantity it read plus its own) or cartItem.create
SessionAddItems(r, key) ==
    IF cartReqs[r].found
    THEN (cartItems \ FindItem(key))
             \cup {[e EXCEPT !.quantity = cartReqs[r].foundQuantity + cartReqs[r].quantity] :
                       e \in FindItem(key)}
    ELSE cartItems \cup {[cartId |-> key.cartId, productId |-> key.productId,
                          quantity |-> cartReqs[r].quantity, price |-> cartReqs[r].price]}

\* cartItem.update / cartItem.create.  An update of a row that is gone
\* (P2025) and a create of a row that exists (P2002, @@unique) throw: the
\* error handler answers
WriteSessionAddItem(r) ==
    /\ cartReqs[r].pc = "found"
    /\ LET key == [cartId |-> cartReqs[r].cartId, productId |-> cartReqs[r].productId] IN
       IF cartReqs[r].found /\ FindItem(key) = {}
       THEN /\ last' = Response("addItemToSessionCart", 404, "Record not found")
            /\ cartReqs' = [cartReqs EXCEPT ![r] = IdleCartReq]
            /\ UNCHANGED cartItems
       ELSE IF ~cartReqs[r].found /\ FindItem(key) # {}
       THEN /\ last' = Response("addItemToSessionCart", 409,
                                "A record with that value already exists")
            /\ cartReqs' = [cartReqs EXCEPT ![r] = IdleCartReq]
            /\ UNCHANGED cartItems
       ELSE /\ cartItems' = SessionAddItems(r, key)
            /\ cartReqs' = [cartReqs EXCEPT ![r].pc = "written"]
            /\ UNCHANGED last
    /\ UNCHANGED <<carts, granted, productVars, orderVars, payVars, histVars>>

\* updateCartTotal: cartItem.findMany and the reduce
ReadSessionAddItems(r) ==
    /\ cartReqs[r].pc = "written"
    /\ cartReqs' = [cartReqs EXCEPT ![r].pc = "summed",
                       ![r].total = StoredPriceTotal(ItemsOf(cartItems, cartReqs[r].cartId))]
    /\ UNCHANGED <<carts, cartItems, granted, last, productVars, orderVars, payVars,
                   histVars>>

\* updateCartTotal: cart.update, and the response
WriteSessionAddTotal(r) ==
    /\ cartReqs[r].pc = "summed"
    /\ carts' = [carts EXCEPT ![cartReqs[r].cartId].total = cartReqs[r].total]
    /\ granted' = [granted EXCEPT
                      ![[cartId |-> cartReqs[r].cartId, productId |-> cartReqs[r].productId]] =
                          @ + cartReqs[r].quantity]
    /\ last' = Response("addItemToSessionCart", IF cartReqs[r].found THEN 200 ELSE 201, "")
    /\ cartReqs' = [cartReqs EXCEPT ![r] = IdleCartReq]
    /\ UNCHANGED <<cartItems, productVars, orderVars, payVars, histVars>>

\* updateCartItem of the session-keyed handlers: quantity 0 removes the item
UpdateSessionCartItem(key, q) ==
    /\ IF q < 0
       THEN CartAnswer("updateSessionCartItem", 400, "Valid quantity is required")
       ELSE IF FindItem(key) = {}
       THEN CartAnswer("updateSessionCartItem", 404, "")
       ELSE LET items == IF q = 0 THEN cartItems \ FindItem(key)
                         ELSE (cartItems \ FindItem(key))
                                  \cup {[e EXCEPT !.quantity = q] : e \in FindItem(key)}
            IN /\ cartItems' = items
               /\ carts' = [carts EXCEPT ![key.cartId].total =
                                StoredPriceTotal(ItemsOf(items, key.cartId))]
               /\ last' = Response("updateSessionCartItem", 200,
                                   IF q = 0 THEN "Item removed from cart" ELSE "")
    /\ UNCHANGED <<productVars, orderVars, payVars, histVars, cartRaceVars>>

\* removeCartItem of the session-keyed handlers
RemoveSessionCartItem(key) ==
    /\ IF FindItem(key) = {}
       THEN CartAnswer("removeSessionCartItem", 404, "")
       ELSE LET items == cartItems \ FindItem(key)
            IN /\ cartItems' = items
               /\ carts' = [carts EXCEPT ![key.cartId].total =
                                StoredPriceTotal(ItemsOf(items, key.cartId))]
               /\ last' = Response("removeSessionCartItem", 200, "")
    /\ UNCHANGED <<productVars, orderVars, payVars, histVars, cartRaceVars>>

\* clearCart of the session-keyed handlers
ClearSessionCart(c) ==
    /\ IF ~carts[c].exists
       THEN CartAnswer("clearSessionCart", 404, "")
       ELSE /\ cartItems' = cartItems \ ItemsOf(cartItems, c)
            /\ carts' = [carts EXCEPT ![c].total = 0]
            /\ last' = Response("clearSessionCart", 200, "")
    /\ UNCHANGED <<productVars, orderVars, payVars, histVars, cartRaceVars>>

\* updateProduct (administrator): the product's price and stock are set from
\* the body
UpdateProduct(p, newPrice, newStock) ==
    /\ price' = [price EXCEPT ![p] = newPrice]
    /\ stock' = [stock EXCEPT ![p] = newStock]
    /\ last' = Response("updateProduct", 200, "")
    /\ UNCHANGED <<isPublished, cartVars, orderVars, payVars, histVars>>

\* ------------------------------------------------------------------ specifications

\* order placement, with two requests in flight
NextPlace ==
    \/ \E r \in Requests, u \in {"u1"}, its \in OrderItemLists, t \in TotalPrices :
           BeginCreateOrder(r, u, its, t)
    \/ \E r \in Requests, i \in 1..2 : ValidateItem(r, i)
    \/ \E r \in Requests, ok \in BOOLEAN : CommitOrder(r, ok)
    \/ \E p \in ProductIds, b \in BOOLEAN : ToggleProductPublication(p, b)

SpecPlace == Init /\ [][NextPlace]_vars

\* the life of an order: placement, shipment, cancellation.  The orders are
\* of products that exist: one item, or two items of one product or of two.
LifeItemInputs ==
    {[productId |-> "p1", quantity |-> q] : q \in 1..MaxQty}
        \cup {[productId |-> "p2", quantity |-> 1]}

LifeItemLists ==
    {<<a>> : a \in LifeItemInputs}
        \cup {<<a, b>> : a \in LifeItemInputs, b \in LifeItemInputs}

NextOrder ==
    \/ \E u \in {"u1"}, its \in LifeItemLists, t \in TotalPrices :
           BeginCreateOrder("r1", u, its, t)
    \/ \E i \in 1..2 : ValidateItem("r1", i)
    \/ \E ok \in BOOLEAN : CommitOrder("r1", ok)
    \/ \E u \in Customers, a \in BOOLEAN, id \in 1..MaxOrders : CancelOrder(u, a, id)
    \/ \E id \in 1..MaxOrders, s \in ShipmentStatuses : UpdateOrderStatus(id, s)

SpecOrder == Init /\ [][NextOrder]_vars

\* the payment entry points, over orders of one unit placed by "u1"
PayItemLists == {<<[productId |-> "p1", quantity |-> 1]>>}

NextPay ==
    \/ \E its \in PayItemLists, t \in TotalPrices : BeginCreateOrder("r1", "u1", its, t)
    \/ ValidateItem("r1", 1)
    \/ CommitOrder("r1", TRUE)
    \/ \E u \in Customers, id \in 1..MaxOrders, pr \in {"ok", "noApprove", "fail"} :
           InitiatePaypalPayment(u, id, pr)
    \/ \E t \in 0..MaxProviderOrders, c \in BOOLEAN : HandlePaypalConfirmation(t, c)
    \/ \E t \in 0..MaxProviderOrders : HandlePaypalCancellation(t)
    \/ \E e \in {"PAYMENT.CAPTURE.COMPLETED", "CHECKOUT.ORDER.APPROVED"},
          t \in 0..MaxProviderOrders :
           HandlePaypalWebhook(e, t, "capture")
    \/ \E id \in 1..MaxOrders, w \in BOOLEAN : UpdateOrderToPaid(id, w)
    \/ \E id \in 1..MaxOrders : UpdateOrderStatus(id, "SHIPPED")
    \/ Tick

\* payment does not read the stock: every product starts fully stocked
InitPay == Init /\ stock = [p \in ProductIds |-> MaxStock]

SpecPay == InitPay /\ [][NextPay]_vars

\* one order's whole life: placement, payment, the administrator's status
\* updates, cancellation.  A second order is not placed.
NextLife ==
    \/ /\ Len(orders) = 0
       /\ \E its \in PayItemLists, t \in TotalPrices : BeginCreateOrder("r1", "u1", its, t)
    \/ ValidateItem("r1", 1)
    \/ CommitOrder("r1", TRUE)
    \/ \E u \in Customers, pr \in {"ok", "noApprove", "fail"} :
           InitiatePaypalPayment(u, 1, pr)
    \/ \E t \in 1..MaxProviderOrders, c \in BOOLEAN : HandlePaypalConfirmation(t, c)
    \/ \E t \in 1..MaxProviderOrders : HandlePaypalCancellation(t)
    \/ \E e \in {"PAYMENT.CAPTURE.COMPLETED", "CHECKOUT.ORDER.APPROVED"},
          t \in 1..MaxProviderOrders :
           HandlePaypalWebhook(e, t, "capture")
    \/ \E w \in BOOLEAN : UpdateOrderToPaid(1, w)
    \/ \E st \in OrderStatus : UpdateOrderStatus(1, st)
    \/ \E u \in Customers, a \in BOOLEAN : CancelOrder(u, a, 1)
    \/ Tick

SpecLife == InitPay /\ [][NextLife]_vars

\* req.body.quantity: the routes run no validator, any integer arrives
CartQuantities == (0 - 1)..MaxQty

\* no cart exists but the owner's
OnlyCartOf(owner) == \A c \in CartIds : carts[c].exists => carts[c].sessionId = owner

\* the cart handlers, each run to completion, on the one cart of whoever
\* comes first, and the administrator's edits

NextCart ==
    \/ \E u \in Customers : GetUserCart(u)
    \/ \E u \in Customers, p \in ProductIds \cup {MissingId}, q \in CartQuantities :
           OnlyCartOf(u) /\ AddItemToCart(u, p, q)
    \/ \E u \in Customers, k \in ItemKeys, q \in CartQuantities : UpdateCartItem(u, k, q)
    \/ \E u \in Customers, k \in ItemKeys : RemoveCartItem(u, k)
    \/ \E u \in Customers : ClearCart(u)
    \/ \E sid \in SessionIds : OnlyCartOf(sid) /\ GetCartById(sid)
    \/ \E c \in CartIds, p \in ProductIds \cup {MissingId}, q \in CartQuantities,
          cp \in ClientPrices :
           AddItemToSessionCart(c, p, q, cp)
    \/ \E k \in ItemKeys, q \in CartQuantities : UpdateSessionCartItem(k, q)
    \/ \E k \in ItemKeys : RemoveSessionCartItem(k)
    \/ \E c \in CartIds : ClearSessionCart(c)
    \/ \E np \in Prices, ns \in 0..MaxStock : UpdateProduct("p1", np, ns)
    \/ \E b \in BOOLEAN : ToggleProductPublication("p2", b)

InitCart == Init /\ stock = [p \in ProductIds |-> MaxStock]

SpecCart == InitCart /\ [][NextCart]_vars

\* several carts side by side: the users' carts and a session's, filled and
\* cleared
NextCarts ==
    \/ \E u \in Customers, p \in ProductIds, q \in 1..MaxQty : AddItemToCart(u, p, q)
    \/ \E sid \in SessionIds : GetCartById(sid)
    \/ \E c \in CartIds, p \in ProductIds : AddItemToSessionCart(c, p, 1, 0)
    \/ \E u \in Customers : ClearCart(u)
    \/ \E c \in CartIds : ClearSessionCart(c)

SpecCarts == InitCart /\ [][NextCarts]_vars

\* two session-keyed addItemToCart requests at a time on a session's cart
NextCartRace ==
    \/ \E sid \in SessionIds : GetCartById(sid)
    \/ \E r \in CartRequests, c \in CartIds, p \in ProductIds, q \in 1..MaxQty :
           BeginSessionAdd(r, c, p, q, 0)
    \/ \E r \in CartRequests : WriteSessionAddItem(r)
    \/ \E r \in CartRequests : ReadSessionAddItems(r)
    \/ \E r \in CartRequests : WriteSessionAddTotal(r)

SpecCartRace == InitCart /\ [][NextCartRace]_vars

\* ------------------------------------------------------------------ claims

\* an item the validation pass must refuse, spelled out from the store
ItemRefused(item) ==
    \/ item.productId \notin ProductIds
    \/ ~isPublished[item.productId]
    \/ stock[item.productId] < item.quantity

NoDuplicateProduct(its) ==
    \A i, j \in 1..Len(its) : i # j => its[i].productId # its[j].productId

\* C1: for every Product, stockQuantity >= 0 in every reachable state, after
\* any sequence of order placements and cancellations, also when one placement
\* names the same product more than once.
C1_StockNeverNegative == \A p \in ProductIds : stock[p] >= 0

\* C2: of two placements racing for the last units of a product exactly one
\* wins: a placement that passed validation and whose transaction runs when
\* the stock no longer covers its (duplicate-free) items fails, creating no
\* order and leaving the stock as it is.
C2_RaceLoserFails ==
    [][\A r \in Requests :
          ( /\ reqs[r].pc = "validated"
            /\ reqs'[r].pc = "idle"
            /\ NoDuplicateProduct(reqs[r].items)
            /\ \E p \in ProductIds : stock[p] < Demand(reqs[r].items, p) )
          => ( /\ orders' = orders
               /\ stock' = stock
               /\ last'.op = "createOrder"
               /\ last'.code # 201 )]_vars

\* C4: when an order is placed and then cancelled, and nothing else changed
\* the stock in between, every product's stockQuantity is back at its value
\* before the placement.
C4_PlaceThenCancelRestoresStock ==
    \A id \in DOMAIN orders :
        (cancels[id] >= 1 /\ preStock[id].valid)
            => \A p \in ProductIds : stock[p] = preStock[id].at[p]

\* C4 witness: an order of two items has been placed and cancelled once, with
\* no other change of the stock
C4_Witness ==
    \E id \in DOMAIN orders :
        /\ cancels[id] = 1
        /\ preStock[id].valid
        /\ orders[id].status = "CANCELLED"
        /\ Len(orders[id].items) = 2
        /\ last = Response("cancelOrder", 200, "")

\* C5: cancelling an order that is already CANCELLED changes no product's
\* stockQuantity.
C5_SecondCancelKeepsStock ==
    [][\A u \in Customers, a \in BOOLEAN, id \in DOMAIN orders :
          (orders[id].status = "CANCELLED" /\ CancelOrder(u, a, id))
              => stock' = stock]_vars

\* C6: every step of a placement is all-or-nothing.  It changes neither the
\* orders nor the stock, or it creates the order with all of the request's
\* items and takes every item's quantity from the stock; an item whose
\* product is missing, unpublished or short of stock when it is read never
\* passes validation, and a request that ends without an order is answered
\* with an error.
C6_PlacementAllOrNothing ==
    [][\A r \in Requests :
          reqs'[r] # reqs[r] =>
              /\ \/ /\ orders' = orders
                    /\ stock' = stock
                    /\ reqs'[r].pc = "idle" => (last'.op = "createOrder" /\ last'.code = 400)
                 \/ /\ reqs[r].pc = "validated"
                    /\ Len(orders') = Len(orders) + 1
                    /\ SubSeq(orders', 1, Len(orders)) = orders
                    /\ orders'[Len(orders')].items = reqs[r].items
                    /\ \A p \in ProductIds :
                           stock'[p] = stock[p] - Demand(reqs[r].items, p)
                    /\ last' = Response("createOrder", 201, "")
              /\ \A i \in reqs'[r].read \ reqs[r].read :
                     reqs[r].pc = "validating" => ~ItemRefused(reqs[r].items[i])]_vars

\* C6 witness: one order has been placed, taking its items from the stock, and
\* a later request was then refused for short stock, leaving both as they were
C6_Witness ==
    /\ last = Response("createOrder", 400, "InsufficientStock")
    /\ Len(orders) = 1
    /\ Len(orders[1].items) = 2
    /\ preStock[1].valid
    /\ \A p \in ProductIds :
           stock[p] = preStock[1].at[p] - Demand(orders[1].items, p)
    /\ \A r \in Requests : reqs[r].pc = "idle"

\* C7: a successful placement creates the order PENDING and unpaid, and takes
\* from each product's stockQuantity exactly the quantity ordered of it.
C7_PlacementCreatesPendingAndDecrements ==
    [][\A r \in Requests :
          ( /\ reqs[r].pc = "validated"
            /\ reqs'[r].pc = "idle"
            /\ last' = Response("createOrder", 201, "") )
          => ( /\ Len(orders') = Len(orders) + 1
               /\ orders'[Len(orders')].status = "PENDING"
               /\ orders'[Len(orders')].isPaid = FALSE
               /\ orders'[Len(orders')].userId = reqs[r].userId
               /\ \A p \in ProductIds :
                      stock'[p] = stock[p] - Demand(reqs[r].items, p) )]_vars

\* C7 witness: an order for two units of one product has just been placed:
\* the stock is two below what it was
C7_Witness ==
    /\ last = Response("createOrder", 201, "")
    /\ orders # <<>>
    /\ LET id == Len(orders) IN
         /\ orders[id].status = "PENDING"
         /\ ~orders[id].isPaid
         /\ preStock[id].valid
         /\ \E p \in ProductIds :
                /\ orders[id].items = <<[productId |-> p, quantity |-> 2]>>
                /\ stock[p] = preStock[id].at[p] - 2

\* C8: a cancellation by someone who is neither the order's owner nor an
\* administrator is answered 403, one of an order whose isShipped or
\* isDelivered flag is set is answered 400, and neither changes the order or
\* any stock.
C8_RefusedCancelChangesNothing ==
    [][\A u \in Customers, a \in BOOLEAN, id \in DOMAIN orders :
          CancelOrder(u, a, id) =>
              /\ (~a /\ orders[id].userId # u)
                     => (orders' = orders /\ stock' = stock
                           /\ last' = Response("cancelOrder", 403, ""))
              /\ ((a \/ orders[id].userId = u)
                    /\ (orders[id].isShipped \/ orders[id].isDelivered))
                     => (orders' = orders /\ stock' = stock
                           /\ last' = Response("cancelOrder", 400, ""))]_vars

\* C8 witness: the owner's cancellation of a shipped order has been refused
C8_Witness ==
    /\ last = Response("cancelOrder", 400, "")
    /\ \E id \in DOMAIN orders :
           orders[id].isShipped /\ orders[id].status = "SHIPPED"

\* C9: marking paid is idempotent.  A payment-completed webhook for an order
\* that is already paid (by Confirm, or by an earlier webhook) changes no
\* order and is answered 200.
C9_RepeatedWebhookIsNoOp ==
    [][\A t \in 1..MaxProviderOrders :
          ( /\ HandlePaypalWebhook("PAYMENT.CAPTURE.COMPLETED", t, "capture")
            /\ \E id \in OrdersByProviderId(t) : orders[id].isPaid )
          => ( /\ orders' = orders
               /\ last'.op = "handlePaypalWebhook"
               /\ last'.code = 200 )]_vars

\* C9 witness: the order was marked paid by Confirm, it has shipped since, and
\* a payment-completed webhook for it has been answered 200: the order still
\* carries Confirm's payment result and its status
C9_Witness ==
    /\ last = Response("handlePaypalWebhook", 200, "already paid")
    /\ \E id \in DOMAIN orders :
           /\ orders[id].isPaid
           /\ orders[id].status = "SHIPPED"
           /\ orders[id].paymentResult.emailAddress = "payer"
           /\ orders[id].paymentResult.id = "capture"

\* C10: a Confirm redirect for a token whose order is already paid changes no
\* order and redirects to the success page.
C10_ConfirmOnPaidIsNoOp ==
    [][\A t \in 1..MaxProviderOrders, c \in BOOLEAN :
          ( /\ HandlePaypalConfirmation(t, c)
            /\ \E id \in OrdersByProviderId(t) : orders[id].isPaid )
          => ( /\ orders' = orders
               /\ last' = Response("handlePaypalConfirmation", 302, "confirmation") )]_vars

\* the sum, over the cart's items, of quantity times the price stored on the
\* item
RECURSIVE SnapshotSum(_)
SnapshotSum(its) ==
    IF its = {} THEN 0
    ELSE LET it == CHOOSE x \in its : TRUE
         IN it.quantity * it.price + SnapshotSum(its \ {it})

\* C3: whenever no cart handler is running, every cart's stored total is the
\* sum over its items of quantity times the item's stored price, also after
\* the product's price has changed since the item was added.
C3_TotalIsSumOfSnapshots ==
    \A c \in CartIds :
        carts[c].exists =>
            carts[c].total = SnapshotSum({it \in cartItems : it.cartId = c})

\* a step of one of the payment entry points
PaymentStep ==
    \/ \E u \in Customers, id \in 1..MaxOrders, pr \in {"ok", "noApprove", "fail"} :
           InitiatePaypalPayment(u, id, pr)
    \/ \E t \in 0..MaxProviderOrders, c \in BOOLEAN : HandlePaypalConfirmation(t, c)
    \/ \E t \in 0..MaxProviderOrders : HandlePaypalCancellation(t)
    \/ \E e \in {"PAYMENT.CAPTURE.COMPLETED", "CHECKOUT.ORDER.APPROVED"},
          t \in 0..MaxProviderOrders :
           HandlePaypalWebhook(e, t, "capture")
    \/ \E id \in 1..MaxOrders, w \in BOOLEAN : UpdateOrderToPaid(id, w)

\* C11: no step of a payment entry point (Initiate, Confirm, Webhook, checkout
\* Cancel, the generic mark-as-paid) changes a product's stock or an order's
\* total or items; over an order's life the stock changes only in a step of
\* order placement or of order cancellation.
C11_PaymentLeavesStockAndTotals ==
    [][ /\ PaymentStep =>
            /\ stock' = stock
            /\ Len(orders') = Len(orders)
            /\ \A id \in DOMAIN orders :
                   /\ orders'[id].total = orders[id].total
                   /\ orders'[id].items = orders[id].items
        /\ stock' # stock =>
            \/ \E r \in Requests, ok \in BOOLEAN : CommitOrder(r, ok)
            \/ \E u \in Customers, a \in BOOLEAN, id \in 1..MaxOrders : CancelOrder(u, a, id)
      ]_vars

\* C11 witness: the order took one unit at placement and has been marked paid
\* by Confirm since: the stock and the total are as placement left them
C11_Witness ==
    /\ last = Response("handlePaypalConfirmation", 302, "confirmation")
    /\ Len(orders) = 1
    /\ orders[1].isPaid
    /\ orders[1].total = 50
    /\ stock["p1"] = MaxStock - 1

\* C12: an Initiate for an order that does not exist, that the caller does not
\* own, or that is already paid is answered 404, 403, 400 in that order of
\* tests, calls the payment provider not at all and changes no order.
C12_InitiateRejectedBeforeProvider ==
    [][\A u \in Customers, id \in 1..MaxOrders, pr \in {"ok", "noApprove", "fail"} :
          ( /\ InitiatePaypalPayment(u, id, pr)
            /\ \/ id \notin DOMAIN orders
               \/ orders[id].userId # u
               \/ orders[id].isPaid )
          => /\ orders' = orders
             /\ ppNext' = ppNext
             /\ providerCalls' = {}
             /\ last'.op = "initiatePaypalPayment"
             /\ last'.code = IF id \notin DOMAIN orders THEN 404
                             ELSE IF orders[id].userId # u THEN 403 ELSE 400
      ]_vars

\* C12 witness: the owner's Initiate on a paid order, with a provider order
\* id still to hand out, has been refused
C12_Witness ==
    /\ last = Response("initiatePaypalPayment", 400, "Order is already paid")
    /\ providerCalls = {}
    /\ ppNext < MaxProviderOrders
    /\ \E id \in DOMAIN orders : orders[id].isPaid /\ orders[id].userId = "u1"

\* C13: an Initiate or a Confirm that ends in failure (an error status is
\* sent to the caller) leaves every order as it was: paymentProviderOrderId,
\* isPaid, status and paymentResult are unchanged.
C13_FailedPaymentStepKeepsOrder ==
    [][ ( /\ \/ \E u \in Customers, id \in 1..MaxOrders, pr \in {"ok", "noApprove", "fail"} :
                    InitiatePaypalPayment(u, id, pr)
             \/ \E t \in 0..MaxProviderOrders, c \in BOOLEAN : HandlePaypalConfirmation(t, c)
          /\ last'.code >= 400 )
        => orders' = orders ]_vars

\* C14: a successful Initiate stores the provider order id the provider has
\* just returned on the order, whatever id was there, leaves the other
\* orders alone and answers with the approval URL; so after two successful
\* Initiates on one order the order carries the second id.
C14_InitiateStoresLatestProviderId ==
    [][\A u \in Customers, id \in 1..MaxOrders :
          ( InitiatePaypalPayment(u, id, "ok") /\ last'.code = 200 )
          => /\ ppNext' = ppNext + 1
             /\ orders'[id].paymentProviderOrderId = ppNext'
             /\ orders'[id].paymentMethod = "PayPal"
             /\ \A o \in DOMAIN orders \ {id} : orders'[o] = orders[o]
             /\ last' = Response("initiatePaypalPayment", 200, "approvalUrl")
      ]_vars

\* C14 witness: two provider orders have been created for one order, and the
\* order carries the second one's id
C14_Witness ==
    /\ last = Response("initiatePaypalPayment", 200, "approvalUrl")
    /\ ppNext = 2
    /\ \E id \in DOMAIN orders :
           /\ orders[id].paymentProviderOrderId = 2
           /\ \A o \in DOMAIN orders \ {id} : orders[o].paymentProviderOrderId = 0

\* C15: a Confirm, or a payment-completed webhook, for a provider order id
\* that is on no order now (an id a later Initiate has replaced included) is
\* answered 404, makes no capture call and changes no order.
C15_UnknownProviderIdNotFound ==
    [][\A t \in 1..MaxProviderOrders :
          ( /\ \A id \in DOMAIN orders : orders[id].paymentProviderOrderId # t
            /\ \/ \E c \in BOOLEAN : HandlePaypalConfirmation(t, c)
               \/ HandlePaypalWebhook("PAYMENT.CAPTURE.COMPLETED", t, "capture") )
          => /\ orders' = orders
             /\ providerCalls' = {}
             /\ last'.code = 404
      ]_vars

\* C15 witness: the provider has handed out ids 1 and 2, an order carries 2,
\* no order carries 1, and a Confirm has been answered 404: it was for the
\* replaced id 1
C15_Witness ==
    /\ last = Response("handlePaypalConfirmation", 404, "")
    /\ ppNext = 2
    /\ \E id \in DOMAIN orders : orders[id].paymentProviderOrderId = 2
    /\ \A id \in DOMAIN orders : orders[id].paymentProviderOrderId # 1

\* C16: a webhook event of another type than payment-capture-completed is
\* answered 200 and changes no order; a payment-capture-completed event
\* changes only an unpaid order that carries the event's provider order id,
\* and marks it paid; no webhook calls the provider.
C16_WebhookActsOnCompletedCaptureOnly ==
    [][\A e \in {"PAYMENT.CAPTURE.COMPLETED", "CHECKOUT.ORDER.APPROVED"},
          t \in 0..MaxProviderOrders :
          HandlePaypalWebhook(e, t, "capture")
          => /\ providerCalls' = {}
             /\ Len(orders') = Len(orders)
             /\ e # "PAYMENT.CAPTURE.COMPLETED"
                    => (orders' = orders /\ last'.code = 200)
             /\ \A id \in DOMAIN orders :
                    /\ orders'[id] # orders[id]
                           => /\ ~orders[id].isPaid
                              /\ orders[id].paymentProviderOrderId = t
                              /\ orders'[id].isPaid
                    /\ ( /\ e = "PAYMENT.CAPTURE.COMPLETED"
                          /\ t # 0
                          /\ orders[id].paymentProviderOrderId = t
                          /\ ~orders[id].isPaid )
                           => orders'[id].isPaid
      ]_vars

\* C16 witness: an event of another type, sent while an unpaid order carries
\* a provider order id, has been acknowledged
C16_Witness ==
    /\ last = Response("handlePaypalWebhook", 200, "ignored")
    /\ \E id \in DOMAIN orders :
           orders[id].paymentProviderOrderId # 0 /\ ~orders[id].isPaid

\* C17: the checkout Cancel redirect changes no order and calls no provider;
\* and the owner's Initiate that follows it on the order, still unpaid,
\* succeeds: it is answered 200 and stores the new provider order id.
C17_CheckoutCancelKeepsOrder ==
    [][ /\ \A t \in 0..MaxProviderOrders :
               HandlePaypalCancellation(t) => (orders' = orders /\ providerCalls' = {})
        /\ \A u \in Customers, id \in DOMAIN orders :
               ( /\ last = Response("handlePaypalCancellation", 302, "cancelled")
                 /\ orders[id].userId = u
                 /\ ~orders[id].isPaid
                 /\ InitiatePaypalPayment(u, id, "ok") )
               => /\ last' = Response("initiatePaypalPayment", 200, "approvalUrl")
                  /\ orders'[id].paymentProviderOrderId = ppNext'
      ]_vars

\* C17 witness: the checkout of an unpaid order has been cancelled, and the
\* order still carries the provider order id and is PENDING and unpaid
C17_Witness ==
    /\ last = Response("handlePaypalCancellation", 302, "cancelled")
    /\ ppNext < MaxProviderOrders
    /\ \E id \in DOMAIN orders :
           /\ orders[id].paymentProviderOrderId # 0
           /\ ~orders[id].isPaid
           /\ orders[id].status = "PENDING"

\* the forward order of the statuses
StatusRank(st) ==
    CASE st = "PENDING" -> 1
      [] st = "PROCESSING" -> 2
      [] st = "SHIPPED" -> 3
      [] st = "DELIVERED" -> 4
      [] OTHER -> 5

\* C18: in every step an order's status stays, or moves forward in the order
\* PENDING, PROCESSING, SHIPPED, DELIVERED, or becomes CANCELLED; a CANCELLED
\* order's status stays.
C18_StatusMovesForward ==
    [][\A id \in DOMAIN orders :
          \/ orders'[id].status = orders[id].status
          \/ orders'[id].status = "CANCELLED"
          \/ /\ orders[id].status # "CANCELLED"
             /\ StatusRank(orders'[id].status) > StatusRank(orders[id].status)
      ]_vars

\* C19: in every step every order stays in the table at its place, and an
\* order that is paid stays paid: no payment entry point, status update or
\* cancellation sets isPaid back to false.
C19_PaidStaysPaid ==
    [][ /\ Len(orders') >= Len(orders)
        /\ \A id \in DOMAIN orders : orders[id].isPaid => orders'[id].isPaid ]_vars

\* C19 witness: a paid order has been cancelled, and is still paid
C19_Witness ==
    /\ last = Response("cancelOrder", 200, "")
    /\ \E id \in DOMAIN orders :
           /\ orders[id].isPaid
           /\ orders[id].status = "CANCELLED"
           /\ orders[id].paymentProviderOrderId # 0

\* C20: in every reachable state a paid order has paidAt set, a payment
\* result recorded and a provider order id set.
C20_PaidOrderIsComplete ==
    \A id \in DOMAIN orders :
        orders[id].isPaid =>
            /\ orders[id].paidAt # 0
            /\ orders[id].paymentResult # NoResult
            /\ orders[id].paymentProviderOrderId # 0

\* the quantity of product p in cart c, 0 if the cart holds none
QuantityIn(c, p) ==
    IF \E it \in cartItems : it.cartId = c /\ it.productId = p
    THEN (CHOOSE it \in cartItems : it.cartId = c /\ it.productId = p).quantity
    ELSE 0

\* an add of q of product p to cart c that must be refused: the product is
\* missing or unpublished, or q, or q on top of what the cart holds, is more
\* than the stock
AddMustFail(c, p, q) ==
    \/ p \notin ProductIds
    \/ ~isPublished[p]
    \/ q > stock[p]
    \/ QuantityIn(c, p) + q > stock[p]

\* C21: an Add item for a missing or unpublished product, or for more than
\* the stock (on its own or on top of the cart's quantity), is answered with
\* an error and leaves every cart's items and total unchanged; this for the
\* user-keyed handler (the owner's cart) and for the session-keyed one.
C21_RefusedAddChangesNothing ==
    [][ /\ \A u \in Customers, p \in ProductIds \cup {MissingId}, q \in CartQuantities :
               ( /\ AddItemToCart(u, p, q)
                 /\ \/ p \notin ProductIds
                    \/ ~isPublished[p]
                    \/ q > stock[p]
                    \/ \E c \in CartIds :
                           carts[c].exists /\ carts[c].sessionId = u /\ AddMustFail(c, p, q) )
               => (last'.code >= 400 /\ carts' = carts /\ cartItems' = cartItems)
        /\ \A c \in CartIds, p \in ProductIds \cup {MissingId}, q \in CartQuantities,
              cp \in ClientPrices :
               ( /\ AddItemToSessionCart(c, p, q, cp)
                 /\ carts[c].exists
                 /\ AddMustFail(c, p, q) )
               => (last'.code >= 400 /\ carts' = carts /\ cartItems' = cartItems)
      ]_vars

\* C22: successive Add item calls by one owner accumulate in the owner's
\* cart: an add of a published product the owner's cart already holds, with
\* the cumulative quantity within the stock, succeeds and raises the item's
\* quantity by the requested amount.
C22_SecondAddAccumulates ==
    [][\A u \in Customers, p \in ProductIds, q \in 1..MaxQty, c \in CartIds :
          ( /\ carts[c].exists
            /\ carts[c].sessionId = u
            /\ QuantityIn(c, p) >= 1
            /\ isPublished[p]
            /\ QuantityIn(c, p) + q <= stock[p]
            /\ AddItemToCart(u, p, q) )
          => /\ last'.code = 200
             /\ \E it \in cartItems' :
                    /\ it.cartId = c
                    /\ it.productId = p
                    /\ it.quantity = QuantityIn(c, p) + q
      ]_vars

\* the items left when the item named by key k is removed
WithoutItem(k) ==
    {it \in cartItems : ~(it.cartId = k.cartId /\ it.productId = k.productId)}

\* the item named by key k is in the table
HasItem(k) == \E it \in cartItems : it.cartId = k.cartId /\ it.productId = k.productId

\* C23: an Update item quantity with quantity 0 on an item of the caller's
\* cart deletes the item, as Remove item does, and succeeds; with a
\* negative quantity it is answered 400 and changes nothing; this for the
\* user-keyed handler and for the session-keyed one.
C23_UpdateToZeroRemoves ==
    [][ /\ \A u \in Customers, k \in ItemKeys :
               ( HasItem(k) /\ carts[k.cartId].sessionId = u /\ UpdateCartItem(u, k, 0) )
               => (cartItems' = WithoutItem(k) /\ last'.code = 200)
        /\ \A k \in ItemKeys :
               ( HasItem(k) /\ UpdateSessionCartItem(k, 0) )
               => (cartItems' = WithoutItem(k) /\ last'.code = 200)
        /\ \A u \in Customers, k \in ItemKeys, q \in CartQuantities :
               ( q < 0 /\ (UpdateCartItem(u, k, q) \/ UpdateSessionCartItem(k, q)) )
               => (last'.code = 400 /\ cartItems' = cartItems /\ carts' = carts)
      ]_vars

\* C24: an Update item quantity to more than the product's stock is answered
\* with an error and leaves the items and every cart's total unchanged; this
\* for the user-keyed handler (on the caller's cart) and for the
\* session-keyed one.
C24_UpdateAboveStockRefused ==
    [][ /\ \A u \in Customers, k \in ItemKeys, q \in CartQuantities :
               ( /\ HasItem(k)
                 /\ carts[k.cartId].sessionId = u
                 /\ q > stock[k.productId]
                 /\ UpdateCartItem(u, k, q) )
               => (last'.code = 400 /\ cartItems' = cartItems /\ carts' = carts)
        /\ \A k \in ItemKeys, q \in CartQuantities :
               ( /\ HasItem(k)
                 /\ q > stock[k.productId]
                 /\ UpdateSessionCartItem(k, q) )
               => (last'.code = 400 /\ cartItems' = cartItems /\ carts' = carts)
      ]_vars

\* C25: in every reachable state every cart item has quantity at least 1 and
\* no two cart items share cart and product.
C25_ItemsPositiveAndUnique ==
    /\ \A it \in cartItems : it.quantity >= 1
    /\ \A a \in cartItems, b \in cartItems :
           (a.cartId = b.cartId /\ a.productId = b.productId) => a = b

\* C26: a Clear cart on an existing cart deletes every item of that cart and
\* no other item, sets that cart's total to 0 and leaves every other cart's
\* row as it was; this for the user-keyed handler and the session-keyed one.
C26_ClearEmptiesOneCart ==
    [][\A c \in CartIds :
          ( /\ carts[c].exists
            /\ \/ \E u \in Customers : carts[c].sessionId = u /\ ClearCart(u)
               \/ ClearSessionCart(c) )
          => /\ cartItems' = {it \in cartItems : it.cartId # c}
             /\ carts'[c].total = 0
             /\ \A d \in CartIds \ {c} : carts'[d] = carts[d]
             /\ last'.code = 200
      ]_vars

\* C26 witness: a user's cart has been cleared while another cart holds
\* items and a total
C26_Witness ==
    /\ last = Response("clearCart", 200, "")
    /\ \E c \in CartIds, d \in CartIds :
           /\ c # d
           /\ carts[c].exists /\ carts[c].total = 0
           /\ \A it \in cartItems : it.cartId # c
           /\ carts[d].exists /\ carts[d].total > 0
           /\ \E it \in cartItems : it.cartId = d

\* C27: in every step the price stored on an item that stays in its cart
\* stays the same, and an item that is new in its cart carries the
\* product's price as it is at the add.
C27_SnapshotFixedAtAdd ==
    [][\A n \in cartItems' :
          IF \E o \in cartItems : o.cartId = n.cartId /\ o.productId = n.productId
          THEN \A o \in cartItems :
                   (o.cartId = n.cartId /\ o.productId = n.productId) => n.price = o.price
          ELSE n.price = price[n.productId]
      ]_vars

\* C28: under any interleaving of the cart mutations on a cart, once every
\* mutation has completed the cart's stored total is the sum over its items
\* of quantity times stored price (and so is what every reader sees then).
C28_TotalIsSumWhenQuiet ==
    (\A r \in CartRequests : cartReqs[r].pc = "idle")
        => \A c \in CartIds :
               carts[c].exists =>
                   carts[c].total = SnapshotSum({it \in cartItems : it.cartId = c})

\* C29: concurrent Add item requests for one product in one cart lose no
\* increment: once every request has completed, the item's quantity is the
\* sum of the quantities of the adds that were answered with success.
C29_NoIncrementLost ==
    (\A r \in CartRequests : cartReqs[r].pc = "idle")
        => \A c \in CartIds, p \in ProductIds :
               QuantityIn(c, p) = granted[[cartId |-> c, productId |-> p]]

\* the quantity of product p ordered by the orders of ids that are not
\* CANCELLED
RECURSIVE OpenDemand(_, _)
OpenDemand(ids, p) ==
    IF ids = {} THEN 0
    ELSE LET id == CHOOSE x \in ids : TRUE
         IN (IF orders[id].status # "CANCELLED" THEN Demand(orders[id].items, p) ELSE 0)
            + OpenDemand(ids \ {id}, p)

\* C30: with no administrative stock edit, in every reachable state each
\* product's stockQuantity plus the quantity of it ordered by the orders
\* that are not CANCELLED is the product's initial stockQuantity.
C30_StockConserved ==
    \A p \in ProductIds : stock[p] + OpenDemand(DOMAIN orders, p) = MaxStock

====
